---- MODULE Spec2Model ----
(***************************************************************************)
(* Sandbox runtime of image_source/python-runtime-sandbox/main.py: the     *)
(* path confinement guard (get_safe_path), the command executor and the    *)
(* upload / download / list / exists handlers, over a model of the POSIX   *)
(* file system the handlers work on.                                       *)
(*                                                                         *)
(* A string is a sequence of one-character strings, so that stripping,     *)
(* splitting on "/", percent-decoding and prefix comparison are computed   *)
(* character by character as the Python library computes them.  A byte of  *)
(* file content or of process output is an ASCII character or the byte     *)
(* "\\xff", which is not valid UTF-8.                                      *)
(***************************************************************************)
EXTENDS Integers, Sequences, FiniteSets, TLC

VARIABLES fs, environ, pc, last, up, bg

vars == <<fs, environ, pc, last, up, bg>>

(***************************************************************************)
(* Bounds of the model.                                                    *)
(***************************************************************************)
\* longest uploaded body, in bytes
MaxBody == 1
\* regular files the workspace volume holds (its quota)
MaxFiles == 1

(***************************************************************************)
(* Strings.                                                                *)
(***************************************************************************)
SEP == "/"
CURDIR == <<".">>
PARDIR == <<".", ".">>

\* str.lstrip("/")
RECURSIVE lstrip(_)
lstrip(s) ==
    IF s # <<>> /\ Head(s) = SEP THEN lstrip(Tail(s)) ELSE s

\* str.split("/"): the components between separators, empty ones included
RECURSIVE split(_)
split(s) ==
    IF \A i \in 1..Len(s) : s[i] # SEP
    THEN <<s>>
    ELSE LET k == CHOOSE i \in 1..Len(s) :
                      s[i] = SEP /\ \A j \in 1..(i - 1) : s[j] # SEP
         IN  <<SubSeq(s, 1, k - 1)>> \o split(SubSeq(s, k + 1, Len(s)))

\* "/".join(parts)
RECURSIVE sepjoin(_)
sepjoin(parts) ==
    IF parts = <<>> THEN <<>>
    ELSE IF Len(parts) = 1 THEN parts[1]
    ELSE parts[1] \o <<SEP>> \o sepjoin(Tail(parts))

\* os.path.join(a, b) for two arguments
join(a, b) ==
    IF b # <<>> /\ Head(b) = SEP THEN b
    ELSE IF a = <<>> \/ a[Len(a)] = SEP THEN a \o b
    ELSE a \o <<SEP>> \o b

\* the non-empty, non-"." components of a path string (a list of names)
RECURSIVE names(_)
names(parts) ==
    IF parts = <<>> THEN <<>>
    ELSE IF Head(parts) = <<>> \/ Head(parts) = CURDIR THEN names(Tail(parts))
    ELSE <<Head(parts)>> \o names(Tail(parts))

\* the absolute path string of a list of names
abs(ns) == <<SEP>> \o sepjoin(ns)

\* os.path.normpath of an absolute path given as raw components:
\* "" and "." are dropped, ".." removes the component before it (none at "/")
RECURSIVE normparts(_, _)
normparts(acc, parts) ==
    IF parts = <<>> THEN acc
    ELSE LET c == Head(parts) IN
         IF c = <<>> \/ c = CURDIR THEN normparts(acc, Tail(parts))
         ELSE IF c = PARDIR
              THEN normparts(IF acc = <<>> THEN acc
                             ELSE SubSeq(acc, 1, Len(acc) - 1), Tail(parts))
         ELSE normparts(Append(acc, c), Tail(parts))

\* longest common prefix of two sequences
RECURSIVE lcp(_, _)
lcp(a, b) ==
    IF a = <<>> \/ b = <<>> \/ Head(a) # Head(b) THEN <<>>
    ELSE <<Head(a)>> \o lcp(Tail(a), Tail(b))

\* os.path.commonprefix: character by character (not used by the guard)
commonprefix(a, b) == lcp(a, b)

\* (mutant) the common prefix taken character by character
commonpath_by_characters(a, b) == commonprefix(a, b)

\* os.path.commonpath([a, b]) of two absolute paths: component by component
commonpath(a, b) == abs(lcp(names(split(a)), names(split(b))))

(***************************************************************************)
(* The file system: a function from the absolute path of every existing    *)
(* entry (a list of names; <<>> is "/") to its node.  Every entry's parent *)
(* is a directory entry.                                                   *)
(***************************************************************************)
Dir == [kind |-> "dir"]
File(data) == [kind |-> "file", data |-> data]
Link(target) == [kind |-> "link", target |-> target]

Front(s) == SubSeq(s, 1, Len(s) - 1)

isabs(s) == s # <<>> /\ Head(s) = SEP

\* os.lstat(p) succeeds and reports a symbolic link
is_link(f, p) == p \in DOMAIN f /\ f[p].kind = "link"

\* Path resolution of the kernel (path_lookup), following every symbolic
\* link: the entry reached from directory cur along the raw components
\* parts.  err = "" and at = the entry, or an errno; creat says that only the
\* final entry is missing and at is where O_CREAT would make it.  inprog
\* holds the links whose targets are being resolved: meeting one again is a
\* loop (ELOOP).
RECURSIVE walk(_, _, _, _)
walk(f, cur, parts, inprog) ==
    IF parts = <<>> THEN [err |-> "", at |-> cur, creat |-> FALSE]
    ELSE LET c == Head(parts)
             rest == Tail(parts)
         IN
         IF c = <<>> THEN walk(f, cur, rest, inprog)
         ELSE IF f[cur].kind # "dir"
              THEN [err |-> "ENOTDIR", at |-> cur, creat |-> FALSE]
         ELSE IF c = CURDIR THEN walk(f, cur, rest, inprog)
         ELSE IF c = PARDIR
              THEN walk(f, IF cur = <<>> THEN cur ELSE Front(cur), rest, inprog)
         ELSE LET p == Append(cur, c) IN
              IF p \notin DOMAIN f
              THEN [err |-> "ENOENT", at |-> p, creat |-> names(rest) = <<>>]
              ELSE IF f[p].kind = "link"
                   THEN IF p \in inprog
                        THEN [err |-> "ELOOP", at |-> p, creat |-> FALSE]
                        ELSE LET t == f[p].target
                                 r == walk(f, IF isabs(t) THEN <<>> ELSE cur,
                                           split(t), inprog \cup {p})
                             IN  IF r.err # ""
                                 THEN [r EXCEPT !.creat = @ /\ names(rest) = <<>>]
                                 ELSE walk(f, r.at, rest, inprog)
              ELSE walk(f, p, rest, inprog)

\* os.stat(path) of an absolute path string
stat(f, path) == walk(f, <<>>, split(path), {})

\* (mutant) only regular files exist
exists_only_files(f, path) ==
    LET st == stat(f, path) IN st.err = "" /\ f[st.at].kind = "file"

\* os.path.exists, os.path.isfile, os.path.isdir: stat succeeded (and the
\* entry has the kind); any OSError gives False
exists_(f, path) == stat(f, path).err = ""
isfile(f, path) ==
    LET st == stat(f, path) IN st.err = "" /\ f[st.at].kind = "file"
isdir(f, path) ==
    LET st == stat(f, path) IN st.err = "" /\ f[st.at].kind = "dir"

\* posixpath._joinrealpath(path, rest, strict=False, seen): path is the
\* resolved prefix (a list of names), rest the raw components still to do,
\* seen maps a link met so far to its resolution (done) or marks it as being
\* resolved.  Answers the path, whether it is fully resolved, and seen.
NoneSeen == [p \in {} |-> [done |-> FALSE, path |-> <<>>]]

RECURSIVE joinrealpath(_, _, _, _)
joinrealpath(f, path, rest, seen) ==
    IF rest = <<>> THEN [path |-> path, ok |-> TRUE, seen |-> seen]
    ELSE LET name == Head(rest)
             r == Tail(rest)
         IN
         IF name = <<>> \/ name = CURDIR THEN joinrealpath(f, path, r, seen)
         ELSE IF name = PARDIR
              THEN joinrealpath(f, IF path = <<>> THEN path ELSE Front(path),
                                r, seen)
         ELSE LET newpath == Append(path, name) IN
              IF ~is_link(f, newpath) THEN joinrealpath(f, newpath, r, seen)
              ELSE IF newpath \in DOMAIN seen
                   THEN IF seen[newpath].done
                        THEN joinrealpath(f, seen[newpath].path, r, seen)
                        ELSE [path |-> newpath \o r, ok |-> FALSE, seen |-> seen]
              ELSE LET t == f[newpath].target
                       sub == joinrealpath(f, IF isabs(t) THEN <<>> ELSE path,
                                  split(t),
                                  seen @@ (newpath :> [done |-> FALSE, path |-> <<>>]))
                   IN  IF ~sub.ok
                       THEN [path |-> sub.path \o r, ok |-> FALSE, seen |-> sub.seen]
                       ELSE joinrealpath(f, sub.path, r,
                                [sub.seen EXCEPT ![newpath] =
                                    [done |-> TRUE, path |-> sub.path]])

\* os.path.realpath(filename) of an absolute filename: _joinrealpath, then
\* abspath (normpath) of what it answers
realpath(f, filename) ==
    abs(normparts(<<>>, joinrealpath(f, <<>>, split(filename), NoneSeen).path))

(***************************************************************************)
(* Percent-decoding.                                                       *)
(***************************************************************************)
HexVal ==
    [c \in {"0", "1", "2", "3", "4", "5", "6", "7", "8", "9",
            "a", "b", "c", "d", "e", "f", "A", "B", "C", "D", "E", "F"} |->
        CASE c = "0" -> 0 [] c = "1" -> 1 [] c = "2" -> 2 [] c = "3" -> 3
          [] c = "4" -> 4 [] c = "5" -> 5 [] c = "6" -> 6 [] c = "7" -> 7
          [] c = "8" -> 8 [] c = "9" -> 9
          [] c \in {"a", "A"} -> 10 [] c \in {"b", "B"} -> 11
          [] c \in {"c", "C"} -> 12 [] c \in {"d", "D"} -> 13
          [] c \in {"e", "E"} -> 14 [] c \in {"f", "F"} -> 15]

\* the printable ASCII characters, in the order of their codes from 32 on
\* (code 96, the grave accent, is written out: TLA+ strings cannot hold it)
Printable ==
    <<" ", "!", "\"", "#", "$", "%", "&", "'", "(", ")", "*", "+", ",", "-", ".", "/", "0", "1", "2", "3", "4", "5", "6", "7", "8", "9", ":", ";", "<", "=", ">", "?", "@", "A", "B", "C", "D", "E", "F", "G", "H", "I", "J", "K", "L", "M", "N", "O", "P", "Q", "R", "S", "T", "U", "V", "W", "X", "Y", "Z", "[", "\\", "]", "^", "_">>
      \o <<"grave">> \o <<"a", "b", "c", "d", "e", "f", "g", "h", "i", "j", "k", "l", "m", "n", "o", "p", "q", "r", "s", "t", "u", "v", "w", "x", "y", "z", "{", "|", "}", "~">>

\* U+FFFD, which bytes.decode("utf-8", "replace") gives for an invalid byte
REPLACEMENT == "\\ufffd"

\* the character one escaped byte decodes to.  A byte from 128 on decodes to
\* U+FFFD unless it is part of a well-formed multi-byte sequence; the request
\* paths of this model hold no continuation byte, so none is.
chr(b) == IF b >= 128 THEN REPLACEMENT ELSE Printable[b - 31]

\* urllib.parse.unquote(s): every "%" followed by two hexadecimal digits is
\* replaced by the byte they name; any other "%" stays
RECURSIVE unquote(_)
unquote(s) ==
    IF s = <<>> THEN <<>>
    ELSE IF /\ Head(s) = "%"
            /\ Len(s) >= 3
            /\ s[2] \in DOMAIN HexVal
            /\ s[3] \in DOMAIN HexVal
         THEN <<chr(16 * HexVal[s[2]] + HexVal[s[3]])>>
                  \o unquote(SubSeq(s, 4, Len(s)))
         ELSE <<Head(s)>> \o unquote(Tail(s))

(***************************************************************************)
(* Process-wide configuration, fixed when the module is loaded.            *)
(***************************************************************************)
\* the environment the server process is started with
BootEnv == ("WORKSPACE_DIR" :> <<"/", "w">>) @@ ("HOME" :> <<"/", "r", "o", "o", "t">>)

\* the file system the server process is started on: /ww is a directory next
\* to the workspace, /ww/f a file in it
BootFs ==
    (<<>> :> Dir) @@ (<<<<"w", "w">>>> :> Dir) @@ (<<<<"w", "w">>, <<"f">>>> :> File(<<"a">>))
      @@ (<<<<"t", "m", "p">>>> :> Dir)

\* os.getenv(key, default)
getenv(env, key, default) == IF key \in DOMAIN env THEN env[key] ELSE default

WORKSPACE_DIR == realpath(BootFs, getenv(BootEnv, "WORKSPACE_DIR", <<"/", "t", "m", "p", "/", "w", "o", "r", "k", "s", "p", "a", "c", "e">>))
RUNTIME_DIR == realpath(BootFs, getenv(BootEnv, "XDG_RUNTIME_DIR", <<"/", "t", "m", "p", "/", "r", "u", "n", "t", "i", "m", "e">>))
CACHE_DIR ==
    realpath(BootFs, getenv(BootEnv, "XDG_CACHE_HOME", join(WORKSPACE_DIR, <<".", "c", "a", "c", "h", "e">>)))
CONFIG_DIR ==
    realpath(BootFs, getenv(BootEnv, "XDG_CONFIG_HOME", join(WORKSPACE_DIR, <<".", "c", "o", "n", "f", "i", "g">>)))

\* get_safe_path(file_path): the resolved path, or ValueError (ok = FALSE)
get_safe_path(f, file_path) ==
    LET base_dir == WORKSPACE_DIR
        clean_path == lstrip(file_path)
        full_path == realpath(f, join(base_dir, clean_path))
    IN  IF commonpath(base_dir, full_path) # base_dir
        THEN [ok |-> FALSE, path |-> <<>>]
        ELSE [ok |-> TRUE, path |-> full_path]

\* os.makedirs(path, exist_ok=True) of a resolved path given as names: every
\* missing directory on the way is made, existing ones are left alone
RECURSIVE makedirs(_, _, _)
makedirs(f, cur, ns) ==
    IF ns = <<>> THEN f
    ELSE LET p == Append(cur, Head(ns)) IN
         makedirs(IF p \in DOMAIN f THEN f ELSE f @@ (p :> Dir), p, Tail(ns))

\* (mutant) the workspace is emptied before its directories are made
ensure_workspace_emptied(f) ==
    LET root == names(split(WORKSPACE_DIR))
        kept == {p \in DOMAIN f : ~(Len(p) > Len(root)
                                     /\ SubSeq(p, 1, Len(root)) = root)}
        f0 == [p \in kept |-> f[p]]
        f1 == makedirs(f0, <<>>, root)
        f2 == makedirs(f1, <<>>, names(split(RUNTIME_DIR)))
        f3 == makedirs(f2, <<>>, names(split(CACHE_DIR)))
    IN  makedirs(f3, <<>>, names(split(CONFIG_DIR)))

\* ensure_workspace(), run at startup before any request
ensure_workspace(f) ==
    LET f1 == makedirs(f, <<>>, names(split(WORKSPACE_DIR)))
        f2 == makedirs(f1, <<>>, names(split(RUNTIME_DIR)))
        f3 == makedirs(f2, <<>>, names(split(CACHE_DIR)))
    IN  makedirs(f3, <<>>, names(split(CONFIG_DIR)))

(***************************************************************************)
(* Texts.  A message is a sequence of pieces: the characters of the values *)
(* formatted into it, and the fixed fragments of the source's f-strings,   *)
(* each written as one piece.                                              *)
(***************************************************************************)
\* str(e) of an OSError with errno err raised for path
strerror(err) ==
    CASE err = "ENOENT" -> "[Errno 2] No such file or directory"
      [] err = "EAGAIN" -> "[Errno 11] Resource temporarily unavailable"
      [] err = "ENOTDIR" -> "[Errno 20] Not a directory"
      [] err = "EISDIR" -> "[Errno 21] Is a directory"
      [] err = "ELOOP" -> "[Errno 40] Too many levels of symbolic links"
      [] err = "EDQUOT" -> "[Errno 122] Disk quota exceeded"

oserror_str(err, path) == <<strerror(err), ": '">> \o path \o <<"'">>

\* str(e) of the ValueError of get_safe_path
ACCESS_DENIED == <<"Access denied: Path must be within the workspace">>

(***************************************************************************)
(* File operations of the handlers.                                        *)
(***************************************************************************)
\* the entry p lies in the workspace volume
in_volume(p) ==
    LET root == names(split(WORKSPACE_DIR)) IN
    Len(p) >= Len(root) /\ SubSeq(p, 1, Len(root)) = root

NumFiles(f) ==
    Cardinality({p \in DOMAIN f : in_volume(p) /\ f[p].kind = "file"})

\* (mutant) the file is opened without O_TRUNC
open_without_truncation(f, path) ==
    LET st == stat(f, path) IN
    IF st.err = ""
    THEN IF f[st.at].kind = "dir"
         THEN [err |-> "EISDIR", at |-> st.at, fs |-> f]
         ELSE [err |-> "", at |-> st.at, fs |-> f]
    ELSE IF st.err = "ENOENT" /\ st.creat
         THEN IF in_volume(st.at) /\ NumFiles(f) >= MaxFiles
              THEN [err |-> "EDQUOT", at |-> st.at, fs |-> f]
              ELSE [err |-> "", at |-> st.at, fs |-> f @@ (st.at :> File(<<>>))]
    ELSE [err |-> st.err, at |-> st.at, fs |-> f]

\* open(path, "wb"): O_WRONLY | O_CREAT | O_TRUNC, following symbolic links.
\* Answers the errno, or the entry opened and the file system with that entry
\* created or truncated.  The volume holds MaxFiles regular files.
open_wb(f, path) ==
    LET st == stat(f, path) IN
    IF st.err = ""
    THEN IF f[st.at].kind = "dir"
         THEN [err |-> "EISDIR", at |-> st.at, fs |-> f]
         ELSE [err |-> "", at |-> st.at, fs |-> [f EXCEPT ![st.at] = File(<<>>)]]
    ELSE IF st.err = "ENOENT" /\ st.creat
         THEN IF in_volume(st.at) /\ NumFiles(f) >= MaxFiles
              THEN [err |-> "EDQUOT", at |-> st.at, fs |-> f]
              ELSE [err |-> "", at |-> st.at, fs |-> f @@ (st.at :> File(<<>>))]
    ELSE [err |-> st.err, at |-> st.at, fs |-> f]

\* f.write(data) and the close that flushes it, on the file opened at entry
\* p and not written since: the bytes go to position 0 of the file, over
\* what is there; what lies beyond them stays
write(f, p, data) ==
    [f EXCEPT ![p] = File(data \o SubSeq(f[p].data, Len(data) + 1,
                                          Len(f[p].data)))]

\* the immediate children of directory d
children(f, d) == {p \in DOMAIN f : Len(p) = Len(d) + 1 /\ Front(p) = d}

(***************************************************************************)
(* The handlers.  Each answers the response and the file system it leaves. *)
(***************************************************************************)
\* (mutant) the file is opened before the file name is checked
upload_file_open_first(f, filename, body) ==
    LET sp == get_safe_path(f, filename)
        o == open_wb(f, realpath(f, join(WORKSPACE_DIR, lstrip(filename))))
    IN  IF ~sp.ok \/ o.err # ""
        THEN [fs |-> o.fs,
              resp |-> [status |-> 500, message |-> <<"File upload failed: ">>]]
        ELSE [fs |-> write(o.fs, o.at, body),
              resp |-> [status |-> 200,
                        message |-> <<"File '">> \o filename
                                       \o <<"' uploaded successfully.">>]]

\* POST /upload
upload_file(f, filename, body) ==
    LET sp == get_safe_path(f, filename) IN
    IF ~sp.ok
    THEN [fs |-> f,
          resp |-> [status |-> 500,
                    message |-> <<"File upload failed: ">> \o ACCESS_DENIED]]
    ELSE LET o == open_wb(f, sp.path) IN
         IF o.err # ""
         THEN [fs |-> f,
               resp |-> [status |-> 500,
                         message |-> <<"File upload failed: ">>
                                        \o oserror_str(o.err, sp.path)]]
         ELSE [fs |-> write(o.fs, o.at, body),
               resp |-> [status |-> 200,
                         message |-> <<"File '">> \o filename
                                        \o <<"' uploaded successfully.">>]]

\* (mutant) the file test comes before the confinement check
download_file_test_first(f, encoded_file_path) ==
    LET decoded_path == unquote(encoded_file_path)
        full_path == realpath(f, join(WORKSPACE_DIR, lstrip(decoded_path)))
        sp == get_safe_path(f, decoded_path)
    IN  IF ~isfile(f, full_path)
        THEN [status |-> 404, message |-> <<"File not found">>]
        ELSE IF ~sp.ok
        THEN [status |-> 403, message |-> <<"Access denied">>]
        ELSE [status |-> 200,
              media_type |-> "application/octet-stream",
              filename |-> decoded_path,
              body |-> f[stat(f, sp.path).at].data]

\* GET /download/{encoded_file_path}
download_file(f, encoded_file_path) ==
    LET decoded_path == unquote(encoded_file_path)
        sp == get_safe_path(f, decoded_path)
    IN  IF ~sp.ok
        THEN [status |-> 403, message |-> <<"Access denied">>]
        ELSE IF isfile(f, sp.path)
             THEN [status |-> 200,
                   media_type |-> "application/octet-stream",
                   filename |-> decoded_path,
                   body |-> f[stat(f, sp.path).at].data]
             ELSE [status |-> 404, message |-> <<"File not found">>]

\* (mutant) the type test is inverted
dir_entry_type_inverted(f, p) ==
    LET n == f[stat(f, abs(p)).at] IN
    [name |-> p[Len(p)],
     size |-> IF n.kind = "file" THEN Len(n.data) ELSE 4096,
     type |-> IF n.kind = "dir" THEN "file" ELSE "directory"]

\* one entry of os.scandir: entry.stat() and entry.is_dir() follow symbolic
\* links (mod_time is left out: the model has no clock)
dir_entry(f, p) ==
    LET n == f[stat(f, abs(p)).at] IN
    [name |-> p[Len(p)],
     size |-> IF n.kind = "file" THEN Len(n.data) ELSE 4096,
     type |-> IF n.kind = "dir" THEN "directory" ELSE "file"]

\* (mutant) an entry whose metadata cannot be read is skipped
list_files_skipping(f, encoded_file_path) ==
    LET decoded_path == unquote(encoded_file_path)
        sp == get_safe_path(f, decoded_path)
    IN  IF ~sp.ok
        THEN {[status |-> 403, message |-> <<"Access denied">>]}
        ELSE IF ~isdir(f, sp.path)
             THEN {[status |-> 404, message |-> <<"Path is not a directory">>]}
        ELSE LET kids == children(f, stat(f, sp.path).at)
                 good == {p \in kids : stat(f, abs(p)).err = ""}
             IN  {[status |-> 200, content |-> {dir_entry(f, p) : p \in good}]}

\* GET /list/{encoded_file_path}: the responses it may give (scandir yields
\* the children in no particular order, so when several children cannot be
\* stat'ed the error names any one of them)
list_files(f, encoded_file_path) ==
    LET decoded_path == unquote(encoded_file_path)
        sp == get_safe_path(f, decoded_path)
    IN  IF ~sp.ok
        THEN {[status |-> 403, message |-> <<"Access denied">>]}
        ELSE IF ~isdir(f, sp.path)
             THEN {[status |-> 404, message |-> <<"Path is not a directory">>]}
        ELSE LET kids == children(f, stat(f, sp.path).at)
                 bad == {p \in kids : stat(f, abs(p)).err # ""}
             IN  IF bad = {}
                 THEN {[status |-> 200,
                        content |-> {dir_entry(f, p) : p \in kids}]}
                 ELSE {[status |-> 500,
                        message |-> <<"List files failed: ">>
                            \o oserror_str(stat(f, abs(p)).err,
                                   join(sp.path, p[Len(p)]))] : p \in bad}

\* GET /exists/{encoded_file_path}
exists(f, encoded_file_path) ==
    LET decoded_path == unquote(encoded_file_path)
        sp == get_safe_path(f, decoded_path)
    IN  IF ~sp.ok
        THEN [status |-> 403, message |-> <<"Access denied">>]
        ELSE [status |-> 200,
              content |-> [path |-> decoded_path,
                           exists |-> exists_(f, sp.path)]]

(***************************************************************************)
(* POST /execute.  The shell is not part of the program: sh gives, for the *)
(* commands of the model, what /bin/sh -c does when started in directory   *)
(* cwd with environment env on file system f.                              *)
(***************************************************************************)
Commands ==
    {"exit 7", "echo hi", "pwd", "cd / && pwd", "echo $HOME",
     "export HOME=/ && echo $HOME", "printf '\\377'", "nosuchcmd",
     "mkdir d", "ln -sT /ww l", "ln -sT d l", "ln -sT nowhere l", "ln -sT l d/l",
     "rm -rf *"}

NL == "\n"

\* the process result of making entry p as node in the directory that
\* resolution dir reached, for the command line's name of the entry
sh_made(f, dir, p, name, node) ==
    IF dir.err = "" /\ f[dir.at].kind = "dir" /\ p \notin DOMAIN f
    THEN [returncode |-> 0, stdout |-> <<>>, stderr |-> <<>>,
          fs |-> f @@ (p :> node)]
    ELSE [returncode |-> 1, stdout |-> <<>>,
          stderr |-> <<"cannot create '">> \o name \o <<"'", NL>>, fs |-> f]

\* the process result of a command that makes entry name (a path relative
\* to cwd) as node, as mkdir(2) and symlink(2) do: the directory of the entry
\* is resolved, the entry itself must not exist (a link there is not followed)
sh_make(f, cwd, name, node) ==
    LET parts == split(join(cwd, name))
        dir == walk(f, <<>>, Front(parts), {})
    IN  sh_made(f, dir, Append(dir.at, parts[Len(parts)]), name, node)

\* rm -rf *: every entry below cwd goes, except those the glob does not
\* match (names starting with a dot) and what lies in them
sh_rm_all(f, cwd) ==
    LET d == names(split(cwd))
        gone == {p \in DOMAIN f : /\ Len(p) > Len(d)
                                  /\ SubSeq(p, 1, Len(d)) = d
                                  /\ Head(p[Len(d) + 1]) # "."}
    IN  [p \in DOMAIN f \ gone |-> f[p]]

\* rmdir d && ln -sT /ww d: the empty directory d gives way to a symbolic
\* link to /ww; rmdir fails on anything else
sh_swap(f, cwd) ==
    LET d == Append(names(split(cwd)), <<"d">>) IN
    IF d \in DOMAIN f /\ f[d].kind = "dir" /\ children(f, d) = {}
    THEN [returncode |-> 0, stdout |-> <<>>, stderr |-> <<>>,
          fs |-> [f EXCEPT ![d] = Link(<<"/", "w", "w">>)]]
    ELSE [returncode |-> 1, stdout |-> <<>>,
          stderr |-> <<"rmdir: failed to remove 'd'", NL>>, fs |-> f]

\* a command that leaves a process behind: the shell starts the subshell in
\* the background, detached from the captured pipes, and exits at once
BackgroundCommand == "(sleep 1; rmdir d && ln -sT /ww d) >/dev/null 2>&1 &"

sh(command, cwd, env, f) ==
    LET quiet(rc) == [returncode |-> rc, stdout |-> <<>>, stderr |-> <<>>, fs |-> f]
        says(out) == [returncode |-> 0, stdout |-> out, stderr |-> <<>>, fs |-> f]
    IN
    CASE command = "exit 7" -> quiet(7)
      [] command = "echo hi" -> says(<<"h", "i">> \o <<NL>>)
      [] command = "pwd" -> says(cwd \o <<NL>>)
      [] command = "cd / && pwd" -> says(<<"/">> \o <<NL>>)
      [] command = "echo $HOME" -> says(getenv(env, "HOME", <<>>) \o <<NL>>)
      [] command = "export HOME=/ && echo $HOME" -> says(<<"/">> \o <<NL>>)
      [] command = "printf '\\377'" -> says(<<"\\xff">>)
      [] command = "nosuchcmd" ->
            [returncode |-> 127, stdout |-> <<>>,
             stderr |-> <<"/bin/sh: 1: nosuchcmd: not found", NL>>, fs |-> f]
      [] command = "mkdir d" -> sh_make(f, cwd, <<"d">>, Dir)
      [] command = "ln -sT /ww l" -> sh_make(f, cwd, <<"l">>, Link(<<"/", "w", "w">>))
      [] command = "ln -sT d l" -> sh_make(f, cwd, <<"l">>, Link(<<"d">>))
      [] command = "ln -sT nowhere l" -> sh_make(f, cwd, <<"l">>, Link(<<"n", "o", "w", "h", "e", "r", "e">>))
      [] command = "ln -sT l d/l" -> sh_make(f, cwd, <<"d", "/", "l">>, Link(<<"l">>))
      [] command = BackgroundCommand -> quiet(0)
      [] command = "rmdir d && ln -sT /ww d" -> sh_swap(f, cwd)
      [] command = "rm -rf *" ->
            [returncode |-> 0, stdout |-> <<>>, stderr |-> <<>>,
             fs |-> sh_rm_all(f, cwd)]

\* bytes.decode("utf-8") of captured output succeeds (text=True): the byte
\* "\\xff" is never part of valid UTF-8
decodable(bytes) == \A i \in 1..Len(bytes) : bytes[i] # "\\xff"

\* (mutant) os.environ is updated in place, without copy()
copy_update_in_place(env) ==
    LET e == ("HOME" :> WORKSPACE_DIR) @@ ("XDG_RUNTIME_DIR" :> RUNTIME_DIR)
               @@ ("XDG_CACHE_HOME" :> CACHE_DIR)
               @@ ("XDG_CONFIG_HOME" :> CONFIG_DIR) @@ env
    IN  [cmd_env |-> e, environ |-> e]

\* cmd_env = os.environ.copy(); cmd_env.update({...}): the environment given
\* to the shell, and os.environ after it
copy_update(env) ==
    [cmd_env |-> ("HOME" :> WORKSPACE_DIR) @@ ("XDG_RUNTIME_DIR" :> RUNTIME_DIR)
                   @@ ("XDG_CACHE_HOME" :> CACHE_DIR)
                   @@ ("XDG_CONFIG_HOME" :> CONFIG_DIR) @@ env,
     environ |-> env]

\* the arguments subprocess.run starts the shell with
popen_args(command, cmd_env) ==
    [args |-> command, cwd |-> WORKSPACE_DIR, env |-> cmd_env, shell |-> TRUE]

\* (mutant) the exit status is dropped
execute_response_without_status(proc) ==
    [stdout |-> proc.stdout, stderr |-> proc.stderr, exit_code |-> 0]

\* the response of a command that ran
execute_response(proc) ==
    [stdout |-> proc.stdout, stderr |-> proc.stderr,
     exit_code |-> proc.returncode]

\* (mutant) the failure is reported with the exit code of a signal
execute_failed_negative(e) ==
    [stdout |-> <<>>, stderr |-> <<"Failed to execute command: ">> \o e,
     exit_code |-> -1]

\* the response of the except branch for exception text e
execute_failed(e) ==
    [stdout |-> <<>>, stderr |-> <<"Failed to execute command: ">> \o e,
     exit_code |-> 1]

\* what the process did, as subprocess.run has it
completed(proc) ==
    [returncode |-> proc.returncode, stdout |-> proc.stdout,
     stderr |-> proc.stderr]

\* the try block once the shell was started with arguments a and did proc:
\* decoding the captured output raises UnicodeDecodeError, or the response
\* is built
execute_ran(env, a, proc) ==
    IF ~decodable(proc.stdout) \/ ~decodable(proc.stderr)
    THEN [fs |-> proc.fs, environ |-> env, status |-> 200,
          raised |-> TRUE, started |-> TRUE, popen |-> a,
          proc |-> completed(proc),
          resp |-> execute_failed(
              <<"'utf-8' codec can't decode byte 0xff in position 0: invalid start byte">>)]
    ELSE [fs |-> proc.fs, environ |-> env, status |-> 200,
          raised |-> FALSE, started |-> TRUE, popen |-> a,
          proc |-> completed(proc),
          resp |-> execute_response(proc)]

\* subprocess.run(...) with arguments a: the shell runs the command
execute_started(f, env, a) == execute_ran(env, a, sh(a.args, a.cwd, a.env, f))

\* the try block with the environment prepared: fork_fails says that starting
\* the shell raises OSError
execute_with(f, ce, command, fork_fails) ==
    IF fork_fails
    THEN [fs |-> f, environ |-> ce.environ, status |-> 200,
          raised |-> TRUE, started |-> FALSE,
          popen |-> popen_args(command, ce.cmd_env),
          proc |-> [returncode |-> 0, stdout |-> <<>>, stderr |-> <<>>],
          resp |-> execute_failed(<<strerror("EAGAIN")>>)]
    ELSE execute_started(f, ce.environ, popen_args(command, ce.cmd_env))

\* execute_command(request).  Answers the response, os.environ and the file
\* system after the call, and (for the properties) how the shell was started
\* and what the process did.
execute_command(f, env, command, fork_fails) ==
    execute_with(f, copy_update(env), command, fork_fails)

(***************************************************************************)
(* Requests.                                                               *)
(***************************************************************************)
\* the paths and file names requests carry: the workspace itself, a file,
\* a directory and a file in it (with the slash also percent-encoded), a
\* leading slash, the parent, the sibling directory /ww whose name starts
\* with the workspace's, a way out and back in, and the links l and d/l
Paths ==
    {<<>>, <<"f">>, <<"/", "f">>, <<"d">>, <<"d", "/", "f">>, <<"d", "%", "2", "F", "f">>, <<".", ".">>, <<".", ".", "/", "w", "w", "/", "f">>, <<".", ".", "/", "w", "/", "f">>,
     <<"l">>, <<"l", "/", "f">>, <<"l", "/", ".", ".">>, <<"d", "/", "l">>}

Bytes == {"a"}

RECURSIVE Bodies(_)
Bodies(n) ==
    IF n = 0 THEN {<<>>}
    ELSE LET shorter == Bodies(n - 1) IN
         shorter \cup {Append(b, c) : b \in shorter, c \in Bytes}

Idle == [op |-> "none"]

(***************************************************************************)
(* The state machine: the process starts, runs its startup handler and   *)
(* then handles one request at a time, start to finish (pc = "responding"  *)
(* while its response is on the way out).  The process may be stopped and  *)
(* started again on the same file system.                                  *)
(***************************************************************************)
\* the uploads that may be in flight together, and none of them in flight
Handlers == {"h1", "h2"}

NoUploads == [h \in Handlers |-> Idle]

Init ==
    /\ fs = BootFs
    /\ environ = BootEnv
    /\ pc = "starting"
    /\ last = Idle
    /\ up = NoUploads
    /\ bg = "none"

\* the startup event: ensure_workspace() runs to its end
Startup ==
    /\ pc = "starting"
    /\ fs' = ensure_workspace(fs)
    /\ last' = [op |-> "startup", before |-> fs]
    /\ pc' = "started"
    /\ UNCHANGED <<environ, up, bg>>

\* startup is complete: the server begins to accept requests
Accept ==
    /\ pc = "started"
    /\ pc' = "serving"
    /\ last' = Idle
    /\ UNCHANGED <<fs, environ, up, bg>>

\* the process exits between two requests and is started again with the
\* environment it is always started with; the file system stays
Restart ==
    /\ pc = "serving"
    /\ pc' = "starting"
    /\ environ' = BootEnv
    /\ UNCHANGED <<fs, last, up, bg>>

Execute ==
    /\ pc = "serving"
    /\ \E command \in Commands, fork_fails \in BOOLEAN :
          LET r == execute_command(fs, environ, command, fork_fails) IN
          /\ fs' = r.fs
          /\ environ' = r.environ
          /\ last' = [op |-> "execute", command |-> command, status |-> r.status,
                      raised |-> r.raised, started |-> r.started,
                      popen |-> r.popen, proc |-> r.proc, resp |-> r.resp,
                      before |-> fs]
    /\ pc' = "responding"
    /\ UNCHANGED <<up, bg>>

Upload ==
    /\ pc = "serving"
    /\ \E filename \in Paths, body \in Bodies(MaxBody) :
          LET r == upload_file(fs, filename, body) IN
          /\ fs' = r.fs
          /\ last' = [op |-> "upload", filename |-> filename, body |-> body,
                      status |-> r.resp.status, resp |-> r.resp, before |-> fs]
    /\ pc' = "responding"
    /\ UNCHANGED <<environ, up, bg>>

Download ==
    /\ pc = "serving"
    /\ \E path \in Paths :
          LET r == download_file(fs, path) IN
          last' = [op |-> "download", path |-> path, status |-> r.status,
                   resp |-> r, before |-> fs]
    /\ pc' = "responding"
    /\ UNCHANGED <<fs, environ, up, bg>>

List ==
    /\ pc = "serving"
    /\ \E path \in Paths :
          \E r \in list_files(fs, path) :
              last' = [op |-> "list", path |-> path, status |-> r.status,
                       resp |-> r, before |-> fs]
    /\ pc' = "responding"
    /\ UNCHANGED <<fs, environ, up, bg>>

Exists ==
    /\ pc = "serving"
    /\ \E path \in Paths :
          LET r == exists(fs, path) IN
          last' = [op |-> "exists", path |-> path, status |-> r.status,
                   resp |-> r, before |-> fs]
    /\ pc' = "responding"
    /\ UNCHANGED <<fs, environ, up, bg>>

\* the response has been sent; request and response are discarded
Respond ==
    /\ pc = "responding"
    /\ pc' = "serving"
    /\ last' = Idle
    /\ UNCHANGED <<fs, environ, up, bg>>

Next ==
    \/ Startup \/ Accept \/ Restart
    \/ Execute \/ Upload \/ Download \/ List \/ Exists \/ Respond

Spec == Init /\ [][Next]_vars

(***************************************************************************)
(* Uploads in flight together.  The handlers are coroutines of one event   *)
(* loop: a handler runs without another handler in between from its start  *)
(* to its await (get_safe_path, open), and again from the await's return   *)
(* to its end (write, close); other handlers run while it awaits the       *)
(* request body.  A process left behind by a command is not bound to the   *)
(* event loop and runs at any moment.                                      *)
(***************************************************************************)
\* the file names and the contents of the uploads in flight together
UploadNames == {<<"f">>, <<"d", "/", "f">>}
ContentA == <<"a", "a">>
ContentB == <<"b">>

\* some handler holds the event loop: it is between get_safe_path and open
LoopHeld == \E h \in Handlers : up[h].op = "upload" /\ up[h].step = "checked"

\* upload_file up to get_safe_path
UploadCheck(h) ==
    /\ pc = "serving"
    /\ up[h] = Idle
    /\ ~LoopHeld
    /\ \E filename \in UploadNames, body \in {ContentA, ContentB} :
          LET sp == get_safe_path(fs, filename) IN
          up' = [up EXCEPT ![h] =
                    IF sp.ok
                    THEN [op |-> "upload", step |-> "checked",
                          filename |-> filename, body |-> body,
                          path |-> sp.path]
                    ELSE [op |-> "upload", step |-> "done",
                          filename |-> filename, body |-> body,
                          status |-> 500, file |-> <<>>]]
    /\ UNCHANGED <<fs, environ, pc, last, bg>>

\* open(file_path, "wb"); the handler then awaits file.read()
UploadOpen(h) ==
    /\ up[h].op = "upload"
    /\ up[h].step = "checked"
    /\ LET o == open_wb(fs, up[h].path) IN
       /\ fs' = IF o.err = "" THEN o.fs ELSE fs
       /\ up' = [up EXCEPT ![h] =
                    IF o.err = ""
                    THEN [op |-> "upload", step |-> "opened",
                          filename |-> up[h].filename, body |-> up[h].body,
                          file |-> o.at]
                    ELSE [op |-> "upload", step |-> "done",
                          filename |-> up[h].filename, body |-> up[h].body,
                          status |-> 500, file |-> <<>>]]
    /\ UNCHANGED <<environ, pc, last, bg>>

\* file.read() has returned: f.write(...), the file is closed, 200
UploadWrite(h) ==
    /\ up[h].op = "upload"
    /\ up[h].step = "opened"
    /\ ~LoopHeld
    /\ fs' = write(fs, up[h].file, up[h].body)
    /\ up' = [up EXCEPT ![h] =
                 [op |-> "upload", step |-> "done",
                  filename |-> up[h].filename, body |-> up[h].body,
                  status |-> 200, file |-> up[h].file]]
    /\ UNCHANGED <<environ, pc, last, bg>>

\* the response has been sent
UploadRespond(h) ==
    /\ up[h].op = "upload"
    /\ up[h].step = "done"
    /\ up' = [up EXCEPT ![h] = Idle]
    /\ UNCHANGED <<fs, environ, pc, last, bg>>

\* POST /execute between the steps of the uploads: subprocess.run keeps the
\* event loop until the shell has exited.  The background command leaves
\* its process behind.
ExecuteAmongUploads ==
    /\ pc = "serving"
    /\ ~LoopHeld
    /\ \E command \in {"mkdir d", BackgroundCommand} :
          LET r == execute_command(fs, environ, command, FALSE) IN
          /\ fs' = r.fs
          /\ environ' = r.environ
          /\ bg' = IF command = BackgroundCommand /\ r.started
                   THEN "running" ELSE bg
    /\ UNCHANGED <<pc, last, up>>

\* the process left behind gets to its command, with the directory and the
\* environment it was started with, and ends
Background ==
    /\ bg = "running"
    /\ fs' = sh("rmdir d && ln -sT /ww d", WORKSPACE_DIR,
                copy_update(environ).cmd_env, fs).fs
    /\ bg' = "none"
    /\ UNCHANGED <<environ, pc, last, up>>

NextUploads ==
    \/ Startup \/ Accept
    \/ ExecuteAmongUploads \/ Background
    \/ \E h \in Handlers :
          UploadCheck(h) \/ UploadOpen(h) \/ UploadWrite(h) \/ UploadRespond(h)

SpecUploads == Init /\ [][NextUploads]_vars

(***************************************************************************)
(* Properties.                                                             *)
(***************************************************************************)
\* request path p, canonicalized against the workspace root on file system f
canonical(f, p) == realpath(f, join(WORKSPACE_DIR, lstrip(p)))

\* p resolves to the workspace root or to a descendant of it, by whole names
resolves_inside(f, p) == in_volume(names(split(canonical(f, p))))

\* the node at canonical path string c ("none" when nothing is there)
kind_at(f, c) ==
    IF names(split(c)) \in DOMAIN f THEN f[names(split(c))].kind ELSE "none"

\* C1: get_safe_path returns a path exactly when the canonicalized join of
\* the root and the slash-stripped input is the root or a descendant of it by
\* whole path components; the path returned is that canonical path, and the
\* entry the kernel reaches (or would create) through it lies in the
\* workspace.
C1_GuardIsComponentwise ==
    pc = "serving" =>
        \A p \in Paths :
            LET r == get_safe_path(fs, p)
                st == stat(fs, r.path)
            IN  /\ r.ok <=> resolves_inside(fs, p)
                /\ r.ok => /\ r.path = canonical(fs, p)
                           /\ (st.err = "" \/ st.creat) => in_volume(st.at)

\* a request for ../ww/f (the sibling whose name starts with the root's) has
\* been refused, while the workspace holds the link l -> /ww, through which
\* l/f is refused as well
C1_Witness ==
    /\ pc = "responding"
    /\ last.op = "exists"
    /\ last.path = <<".", ".", "/", "w", "w", "/", "f">>
    /\ last.status = 403
    /\ is_link(fs, <<<<"w">>, <<"l">>>>)
    /\ fs[<<<<"w">>, <<"l">>>>].target = <<"/", "w", "w">>
    /\ ~get_safe_path(fs, <<"l", "/", "f">>).ok

\* C2: an upload whose file name resolves outside the workspace leaves the
\* whole file system as it was.
C2_RejectedUploadWritesNothing ==
    (last.op = "upload" /\ ~resolves_inside(last.before, last.filename))
        => fs = last.before

\* such an upload, of one byte, aimed at the existing file /ww/f through the
\* link l, has been answered
C2_Witness ==
    /\ last.op = "upload"
    /\ last.filename = <<"l", "/", "f">>
    /\ canonical(last.before, last.filename) = <<"/", "w", "w", "/", "f">>
    /\ last.body # <<>>
    /\ last.status # 200

\* C3: after a successful upload of body under a file name, a download of
\* that name (under every percent-encoding of it) returns exactly body, also
\* when the upload replaced a file with other content.
C3_UploadThenDownload ==
    (last.op = "upload" /\ last.status = 200) =>
        /\ resolves_inside(last.before, last.filename)
        /\ \A e \in Paths :
              unquote(e) = last.filename =>
                  LET r == download_file(fs, e) IN
                  r.status = 200 /\ r.body = last.body

\* d/f held other content before the upload replaced it, and the download of
\* the percent-encoded name d%2Ff gives the new content
C3_Witness ==
    /\ last.op = "upload"
    /\ last.status = 200
    /\ last.filename = <<"d", "/", "f">>
    /\ kind_at(last.before, <<"/", "w", "/", "d", "/", "f">>) = "file"
    /\ last.before[<<<<"w">>, <<"d">>, <<"f">>>>].data # last.body
    /\ download_file(fs, <<"d", "%", "2", "F", "f">>).status = 200
    /\ download_file(fs, <<"d", "%", "2", "F", "f">>).body = last.body

\* the directories a file f is uploaded into, by the names d and l
C4_Dirs == {<<"d">>, <<"l">>}

\* the entry a listing is to show for the file uploaded as f
C4_Entry == [name |-> <<"f">>, size |-> Len(last.body), type |-> "file"]

\* C4 as claimed: after a successful upload of d/f, /list/d returns 200 with
\* an entry f of type file and of the uploaded size.
C4_ListReflectsUpload ==
    \A d \in C4_Dirs :
        (last.op = "upload" /\ last.status = 200 /\ last.filename = d \o <<"/", "f">>) =>
            \A r \in list_files(fs, d) :
                r.status = 200 /\ C4_Entry \in r.content

\* C4 amended: ... unless some entry of d cannot be stat'ed (a symbolic link
\* that dangles or loops), in which case /list/d returns 500 and no entries.
C4_ListReflectsUploadUnlessBrokenEntry ==
    \A d \in C4_Dirs :
        (last.op = "upload" /\ last.status = 200 /\ last.filename = d \o <<"/", "f">>) =>
            \A r \in list_files(fs, d) :
                IF \A p \in children(fs, stat(fs, join(WORKSPACE_DIR, d)).at) :
                       exists_(fs, abs(p))
                THEN r.status = 200 /\ C4_Entry \in r.content
                ELSE r.status = 500 /\ "content" \notin DOMAIN r

\* one byte has been uploaded as d/f and /list/d shows it
C4_Witness ==
    /\ last.op = "upload"
    /\ last.status = 200
    /\ last.filename = <<"d", "/", "f">>
    /\ last.body = <<"a">>
    /\ \E r \in list_files(fs, <<"d">>) :
          r.status = 200 /\ [name |-> <<"f">>, size |-> 1, type |-> "file"] \in r.content

\* C5: /execute always answers 200 with an ExecuteResponse, and when
\* starting or running the subprocess raised, that response is stdout "",
\* exit_code 1 and stderr describing the failure.
C5_ExecuteNeverRaises ==
    last.op = "execute" =>
        /\ last.status = 200
        /\ DOMAIN last.resp = {"stdout", "stderr", "exit_code"}
        /\ last.raised =>
              /\ last.resp.stdout = <<>>
              /\ last.resp.exit_code = 1
              /\ Len(last.resp.stderr) = 2
              /\ last.resp.stderr[1] = "Failed to execute command: "

\* the shell could not be started
C5_Witness ==
    /\ last.op = "execute"
    /\ last.raised
    /\ ~last.started
    /\ last.resp.exit_code = 1

C7_FixedDirectoryAndEnvironment ==
    /\ environ = BootEnv
    /\ last.op = "execute" =>
          /\ last.popen.cwd = WORKSPACE_DIR
          /\ last.popen.env["HOME"] = WORKSPACE_DIR
          /\ last.popen.env["XDG_RUNTIME_DIR"] = RUNTIME_DIR
          /\ last.popen.env["XDG_CACHE_HOME"] = CACHE_DIR
          /\ last.popen.env["XDG_CONFIG_HOME"] = CONFIG_DIR
          /\ (last.started /\ last.command = "pwd") =>
                last.resp.stdout = WORKSPACE_DIR \o <<NL>>
          /\ (last.started /\ last.command = "echo $HOME") =>
                last.resp.stdout = WORKSPACE_DIR \o <<NL>>

\* echo $HOME has printed the workspace root, after an earlier command
\* (mkdir d) ran
C7_Witness ==
    /\ last.op = "execute"
    /\ last.command = "echo $HOME"
    /\ last.started
    /\ last.resp.stdout = WORKSPACE_DIR \o <<NL>>
    /\ kind_at(fs, <<"/", "w", "/", "d">>) = "dir"

\* C8: a download or list of a path resolving outside the workspace is
\* answered 403 whatever is there; inside, /download gives the file exactly
\* when a regular file is there and else 404 "File not found", and /list
\* gives entries only for a directory and else 404 "Path is not a directory".
C8_DownloadListClassification ==
    last.op \in {"download", "list"} =>
        LET p == unquote(last.path)
            c == canonical(last.before, p)
            k == kind_at(last.before, c)
        IN  IF ~resolves_inside(last.before, p)
            THEN last.status = 403
            ELSE IF last.op = "download"
                 THEN IF k = "file"
                      THEN /\ last.status = 200
                           /\ last.resp.body = last.before[names(split(c))].data
                           /\ last.resp.filename = p
                      ELSE /\ last.status = 404
                           /\ last.resp.message = <<"File not found">>
            ELSE IF k = "dir"
                 THEN last.status \in {200, 500}
                 ELSE /\ last.status = 404
                      /\ last.resp.message = <<"Path is not a directory">>

\* a download of the directory d has been answered 404
C8_Witness ==
    /\ last.op = "download"
    /\ last.path = <<"d">>
    /\ kind_at(fs, <<"/", "w", "/", "d">>) = "dir"
    /\ last.status = 404

\* C9: /exists answers a path resolving inside the workspace with 200, the
\* decoded path and exists = (a file or a directory is there), and a path
\* resolving outside with 403 and no exists value.
C9_ExistsNeverErrorsInside ==
    last.op = "exists" =>
        LET p == unquote(last.path)
            c == canonical(last.before, p)
            k == kind_at(last.before, c)
        IN  IF resolves_inside(last.before, p)
            THEN /\ last.status = 200
                 /\ last.resp.content = [path |-> p, exists |-> k \in {"file", "dir"}]
            ELSE /\ last.status = 403
                 /\ "content" \notin DOMAIN last.resp

\* /exists/d%2Ff has been answered for the decoded path d/f ... with true,
\* the directory d itself being reported as existing too
C9_Witness ==
    /\ last.op = "exists"
    /\ last.path = <<"d", "%", "2", "F", "f">>
    /\ last.status = 200
    /\ last.resp.content = [path |-> <<"d", "/", "f">>, exists |-> TRUE]
    /\ exists(fs, <<"d">>).content.exists

\* C10 as claimed: on every file endpoint a path that resolves outside the
\* workspace is answered 403.
C10_ViolationIs403 ==
    last.op \in {"upload", "download", "list", "exists"} =>
        LET p == IF last.op = "upload" THEN last.filename ELSE unquote(last.path) IN
        ~resolves_inside(last.before, p) => last.status = 403

(***************************************************************************)
(* C11: the body of a 500 returned by upload for an I/O failure, or by     *)
(* list for an enumeration failure, is a generic message: it is the same   *)
(* whatever the resolved path and the underlying error are, so any other   *)
(* request that fails that way on the same file system gets the same body. *)
(***************************************************************************)
C11_ErrorBodiesAreGeneric ==
    /\ (/\ last.op = "upload"
        /\ last.status = 500
        /\ get_safe_path(last.before, last.filename).ok) =>
            \A q \in Paths :
                LET r == upload_file(last.before, q, last.body) IN
                (r.resp.status = 500 /\ get_safe_path(last.before, q).ok) =>
                    r.resp.message = last.resp.message
    /\ (last.op = "list" /\ last.status = 500) =>
            \A q \in Paths :
                \A r \in list_files(last.before, q) :
                    r.status = 500 => r.message = last.resp.message

(***************************************************************************)
(* C14: with their configuration variables unset, the runtime, cache and   *)
(* config directories default to locations under the workspace directory,  *)
(* so HOME, XDG_RUNTIME_DIR, XDG_CACHE_HOME and XDG_CONFIG_HOME of every   *)
(* executed command point at directories inside the workspace root.        *)
(***************************************************************************)
DirectoryVariables == {"HOME", "XDG_RUNTIME_DIR", "XDG_CACHE_HOME", "XDG_CONFIG_HOME"}

C14_DirectoriesDefaultUnderWorkspace ==
    (/\ last.op = "execute"
     /\ \A v \in DirectoryVariables \ {"HOME"} : v \notin DOMAIN BootEnv) =>
        \A v \in DirectoryVariables :
            /\ v \in DOMAIN last.popen.env
            /\ in_volume(names(split(last.popen.env[v])))

(***************************************************************************)
(* C15: /list of an existing directory inside the workspace answers 200    *)
(* with exactly one entry per immediate child and none for deeper          *)
(* descendants; when the metadata of some child cannot be read it answers  *)
(* 500 with no entries at all.                                             *)
(***************************************************************************)
\* the entries whose parent is directory dir
C15_Immediate(f, dir) ==
    {p \in DOMAIN f : Len(p) = Len(dir) + 1 /\ SubSeq(p, 1, Len(dir)) = dir}

C15_ListIsFlatAndAllOrNothing ==
    (/\ last.op = "list"
     /\ resolves_inside(last.before, unquote(last.path))
     /\ isdir(last.before, canonical(last.before, unquote(last.path)))) =>
        LET dir == stat(last.before,
                        canonical(last.before, unquote(last.path))).at
            kids == C15_Immediate(last.before, dir)
        IN  IF \A p \in kids : exists_(last.before, abs(p))
            THEN /\ last.status = 200
                 /\ {e.name : e \in last.resp.content} = {p[Len(p)] : p \in kids}
                 /\ Cardinality(last.resp.content) = Cardinality(kids)
            ELSE /\ last.status = 500
                 /\ "content" \notin DOMAIN last.resp

\* a listing failed on a directory that holds a readable child as well, and
\* that child has a child of its own
C15_Witness ==
    /\ last.op = "list"
    /\ last.status = 500
    /\ isdir(last.before, canonical(last.before, unquote(last.path)))
    /\ LET dir == stat(last.before,
                       canonical(last.before, unquote(last.path))).at
       IN  \E p \in C15_Immediate(last.before, dir) :
               /\ exists_(last.before, abs(p))
               /\ C15_Immediate(last.before, p) # {}

(***************************************************************************)
(* C12: two uploads to the same target that run concurrently are           *)
(* last-writer-wins: once both have completed, the content of the file is  *)
(* exactly the content of one of them, under every interleaving of their   *)
(* steps.                                                                  *)
(***************************************************************************)
C12_LastWriterWins ==
    \A g \in Handlers, h \in Handlers :
        (/\ g # h
         /\ up[g].op = "upload" /\ up[g].step = "done" /\ up[g].status = 200
         /\ up[h].op = "upload" /\ up[h].step = "done" /\ up[h].status = 200
         /\ up[g].file = up[h].file) =>
            fs[up[g].file].data \in {up[g].body, up[h].body}

(***************************************************************************)
(* C16: the file an upload opens for writing lies inside the workspace     *)
(* root at the moment it is opened, whatever happens to the workspace      *)
(* between get_safe_path and open.                                         *)
(***************************************************************************)
C16_OpenedFileIsInside ==
    \A h \in Handlers :
        (up[h].op = "upload" /\ up[h].step = "opened") =>
            in_volume(up[h].file)

(***************************************************************************)
(* C13: no request handler runs before ensure_workspace has completed, and *)
(* ensure_workspace makes the workspace, runtime, cache and config         *)
(* directories idempotently: every step taken while the process is         *)
(* starting is the startup handler, which leaves all four directories      *)
(* present, keeps every entry that was there as it was and changes nothing *)
(* when the four were there already; the server then begins to serve on    *)
(* that file system, and a handler only ever runs on a serving process.    *)
(***************************************************************************)
FourDirectories == {WORKSPACE_DIR, RUNTIME_DIR, CACHE_DIR, CONFIG_DIR}

Handled == {"execute", "upload", "download", "list", "exists"}

C13_StartupBeforeRequests ==
    [][/\ pc = "starting" =>
            /\ pc' = "started"
            /\ \A dir \in FourDirectories : isdir(fs', dir)
            /\ \A p \in DOMAIN fs : p \in DOMAIN fs' /\ fs'[p] = fs[p]
            /\ (\A dir \in FourDirectories : isdir(fs, dir)) => fs' = fs
       /\ pc = "started" => (pc' = "serving" /\ fs' = fs)
       /\ last'.op \in Handled => pc = "serving"]_vars

\* the process was started again on a workspace that holds directory d, and
\* startup is complete
C13_Witness ==
    /\ pc = "started"
    /\ last.op = "startup"
    /\ \A dir \in FourDirectories : isdir(last.before, dir)
    /\ isdir(last.before, join(WORKSPACE_DIR, <<"d">>))
    /\ isdir(fs, join(WORKSPACE_DIR, <<"d">>))

====
